---- MODULE Spec2Model ----
(***************************************************************************)
(* QUIC-LB-SHRIMP: the header parser of package packet (PacketProcessor)   *)
(* and the LoadBalancer of package lb, as state machines.  A datagram is a *)
(* Go byte slice: its bytes, its length and its capacity.  Indexing is     *)
(* checked against the length, slicing against the capacity, and uint8     *)
(* arithmetic wraps modulo 256, exactly as the Go code executes it.  The   *)
(* load balancer's methods run statement by statement in goroutines that   *)
(* interleave, under its mutex where the code takes it.                    *)
(***************************************************************************)
EXTENDS Integers, Sequences, FiniteSets, TLC

VARIABLES
    packet,      \* the []byte handed to the parser: [data, cap]
    DCIDLength,  \* PacketProcessor.DCIDLength (uint8)
    call,        \* the parser entry point that ran last
    result,      \* what that call produced (header, or a panic)
    meta,        \* what the sender wrote into the datagram
    pinned,      \* an earlier call kept for comparison: [call, packet, L, result]
    lb,          \* the LoadBalancer: [listener, running, packetProcessor, mu]
    socks,       \* the UDP listeners opened so far, each "open" or "closed"
    pc,          \* where each goroutine stands in the method it is running
    loc,         \* each goroutine's locals and what its current call has done
    ret,         \* each goroutine's last finished call and what it returned
    last,        \* the Start or Shutdown call that finished last
    ncalls,      \* the number of calls made so far
    sigChan      \* main's signal channel (capacity 1): the signals it holds

parserVars == <<packet, DCIDLength, call, result, meta, pinned>>

lbVars == <<lb, socks, pc, loc, ret, last, ncalls, sigChan>>

vars ==
    <<packet, DCIDLength, call, result, meta, pinned, lb, socks, pc, loc, ret, last, ncalls,
      sigChan>>

(***************************************************************************)
(* Bounds of the model.                                                    *)
(***************************************************************************)
\* longest connection ID of a valid datagram (claim C4: 0 to 20 bytes)
MaxValidCID == 20
\* the small CID lengths 0..MaxLen are all tried
MaxLen == 21
\* the CID lengths 256-HighSpan..255 are all tried (uint8 wrap-around region)
HighSpan == 8
\* truncated datagrams are cut at every length 0..MaxCut
MaxCut == 20
\* short-form datagrams of every length 0..MaxShortLen are tried
MaxShortLen == 22
\* parsed datagrams counted from a pinned call on (purity check)
MaxLater == 2
\* calls of LoadBalancer methods made in one behaviour
MaxCalls == 4
\* listeners opened in one behaviour
MaxListens == 3

(***************************************************************************)
(* Program constants.                                                      *)
(***************************************************************************)
Initial == 0
ZeroRTT == 1
HandShake == 2
Retry == 3
OneRTT == 4
\* make([]byte, 1500) in ReadPacket: the capacity of a received datagram
ReadBufferSize == 1500

(***************************************************************************)
(* The load balancer as InitLoadBalancer returns it.                       *)
(***************************************************************************)
\* the goroutines that call the load balancer's methods
Procs == {"g1", "g2"}

\* the nil net.PacketConn (listeners are numbered from 1)
NilListener == 0

\* &LoadBalancer{listenAddr, backends, running: false}: listener and
\* packetProcessor keep their zero value nil, the mutex is unlocked
InitLoadBalancer ==
    [listener |-> NilListener, running |-> FALSE, packetProcessor |-> "nil", mu |-> "free"]

\* the lifecycle state a call finds and leaves: the fields Start and Shutdown write
Lifecycle(b) == [listener |-> b.listener, running |-> b.running]

\* a goroutine's locals at the start of a call: the local variable listener,
\* the lifecycle state found when the mutex was taken, and the calls made to
\* net.ListenPacket and to Close, and whether a read raced with a write
NoLocals ==
    [listener |-> NilListener, before |-> Lifecycle(InitLoadBalancer),
     listens |-> 0, closes |-> 0, raced |-> FALSE]

\* no call has finished
NoCall ==
    [op |-> "none", err |-> "nil", before |-> Lifecycle(InitLoadBalancer),
     after |-> Lifecycle(InitLoadBalancer), listens |-> 0, closes |-> 0, raced |-> FALSE,
     prev |-> "none", prevErr |-> "nil"]

\* a fresh load balancer that no goroutine has called yet
Fresh(at) ==
    /\ lb = InitLoadBalancer
    /\ socks = <<>>
    /\ pc = [p \in Procs |-> at[p]]
    /\ loc = [p \in Procs |-> NoLocals]
    /\ ret = [p \in Procs |-> NoCall]
    /\ last = [op |-> "none", err |-> "nil"]
    /\ ncalls = 0
    /\ sigChan = 0

AllIdle == [p \in Procs |-> "idle"]

(***************************************************************************)
(* Go values: uint8 arithmetic, slices.                                    *)
(***************************************************************************)
\* uint8 addition wraps
U8(x) == x % 256

\* b >> k on a uint8
Shr(b, k) == b \div (2 ^ k)

\* b & (2^k - 1)
LowBits(b, k) == b % (2 ^ k)

Min(a, b) == IF a < b THEN a ELSE b

\* len(packet)
PLen(p) == Len(p.data)

\* packet[i] is allowed when i < len(packet)
IndexOK(p, i) == i < PLen(p)

\* packet[lo:hi] is allowed when lo <= hi <= cap(packet)
SliceOK(p, lo, hi) == lo <= hi /\ hi <= p.cap

\* the byte at index i of the backing array: the datagram's byte, or the
\* zero that make() left behind it
ByteAt(p, i) == IF i < PLen(p) THEN p.data[i + 1] ELSE 0

\* the bytes of packet[lo:hi]
SliceBytes(p, lo, hi) == [k \in 1..(hi - lo) |-> ByteAt(p, lo + k - 1)]

\* binary.BigEndian.Uint32
Uint32(b) == ((b[1] * 256 + b[2]) * 256 + b[3]) * 256 + b[4]

(***************************************************************************)
(* Headers and the outcome of a call.                                      *)
(***************************************************************************)
NilHeader == [kind |-> "nil"]

\* a call that has not run
NoResult == [status |-> "none", err |-> "nil", header |-> NilHeader, oob |-> FALSE]

\* a run-time panic (index or slice bounds out of range): nothing is returned
Panic(oob) == [status |-> "panic", err |-> "nil", header |-> NilHeader, oob |-> oob]

\* return header, nil
Return(h, oob) == [status |-> "returned", err |-> "nil", header |-> h, oob |-> oob]

\* LongHeader.GetCID / ShortHeader.GetCID
GetCID(h) == [cid |-> h.DCID, err |-> "nil"]

\* LongHeader.GetPacketType / ShortHeader.GetPacketType
GetPacketType(h) ==
    IF h.kind = "LongHeader" THEN [type |-> h.LongPacketType, err |-> "nil"]
    ELSE [type |-> OneRTT, err |-> "nil"]

\* LongHeader.GetHeaderForm / ShortHeader.GetHeaderForm
GetHeaderForm(h) == [form |-> h.HeaderForm, err |-> "nil"]

(***************************************************************************)
(* The parser.  Each statement that indexes or slices the packet is a      *)
(* point where the call can panic; oob records that a slice taken by the   *)
(* call extends past the datagram's last byte.                             *)
(***************************************************************************)
\* parseLongHeader with the DCID taken one byte early: packet[5 : 5+d]
parseLongHeaderDCIDFrom5(pkt) ==
    IF ~IndexOK(pkt, 0) THEN Panic(FALSE)
    ELSE IF ~SliceOK(pkt, 1, 5) THEN Panic(FALSE)
    ELSE LET oobV == 5 > PLen(pkt) IN
    IF ~IndexOK(pkt, 5) THEN Panic(oobV)
    ELSE LET d   == ByteAt(pkt, 5)
             hiD == U8(5 + d)
         IN
    IF ~SliceOK(pkt, 5, hiD) THEN Panic(oobV)
    ELSE LET oobD == oobV \/ hiD > PLen(pkt)
             iS   == U8(6 + d)
         IN
    IF ~IndexOK(pkt, iS) THEN Panic(oobD)
    ELSE LET s   == ByteAt(pkt, iS)
             loS == U8(U8(6 + d) + 1)
             hiS == U8(U8(U8(6 + d) + 1) + s)
         IN
    IF ~SliceOK(pkt, loS, hiS) THEN Panic(oobD)
    ELSE Return([kind           |-> "LongHeader",
                 HeaderForm     |-> 1,
                 LongPacketType |-> LowBits(Shr(ByteAt(pkt, 0), 4), 1),
                 TypeSpecific   |-> LowBits(ByteAt(pkt, 0), 4),
                 Version        |-> Uint32(SliceBytes(pkt, 1, 5)),
                 DCIDLength     |-> d,
                 DCID           |-> SliceBytes(pkt, 5, hiD),
                 SCIDLength     |-> s,
                 SCID           |-> SliceBytes(pkt, loS, hiS)],
                oobD \/ hiS > PLen(pkt))

parseLongHeader(pkt) ==
    IF ~IndexOK(pkt, 0) THEN Panic(FALSE)                      \* packet[0]
    ELSE IF ~SliceOK(pkt, 1, 5) THEN Panic(FALSE)              \* packet[1:5]
    ELSE LET oobV == 5 > PLen(pkt) IN
    IF ~IndexOK(pkt, 5) THEN Panic(oobV)                       \* packet[5]
    ELSE LET d   == ByteAt(pkt, 5)
             hiD == U8(6 + d)
         IN
    IF ~SliceOK(pkt, 6, hiD) THEN Panic(oobV)                  \* packet[6 : 6+d]
    ELSE LET oobD == oobV \/ hiD > PLen(pkt)
             iS   == U8(6 + d)
         IN
    IF ~IndexOK(pkt, iS) THEN Panic(oobD)                      \* packet[6+d]
    ELSE LET s   == ByteAt(pkt, iS)
             loS == U8(U8(6 + d) + 1)
             hiS == U8(U8(U8(6 + d) + 1) + s)
         IN
    IF ~SliceOK(pkt, loS, hiS) THEN Panic(oobD)                \* packet[6+d+1 : 6+d+1+s]
    ELSE Return([kind           |-> "LongHeader",
                 HeaderForm     |-> 1,
                 LongPacketType |-> LowBits(Shr(ByteAt(pkt, 0), 4), 1),
                 TypeSpecific   |-> LowBits(ByteAt(pkt, 0), 4),
                 Version        |-> Uint32(SliceBytes(pkt, 1, 5)),
                 DCIDLength     |-> d,
                 DCID           |-> SliceBytes(pkt, 6, hiD),
                 SCIDLength     |-> s,
                 SCID           |-> SliceBytes(pkt, loS, hiS)],
                oobD \/ hiS > PLen(pkt))

\* parseShortHeader with the reserved bits masked by 0x1 instead of 0x3
parseShortHeaderReservedOneBit(L, pkt) ==
    IF ~IndexOK(pkt, 0) THEN Panic(FALSE)
    ELSE LET hi == U8(1 + L) IN
    IF ~SliceOK(pkt, 1, hi) THEN Panic(FALSE)
    ELSE Return([kind               |-> "ShortHeader",
                 HeaderForm         |-> 0,
                 ReservedBits       |-> LowBits(Shr(ByteAt(pkt, 0), 3), 1),
                 KeyPhase           |-> LowBits(Shr(ByteAt(pkt, 0), 2), 1),
                 PacketNumberLength |-> LowBits(ByteAt(pkt, 0), 2),
                 DCID               |-> SliceBytes(pkt, 1, hi),
                 PacketNumber       |-> 0],
                hi > PLen(pkt))

parseShortHeader(L, pkt) ==
    IF ~IndexOK(pkt, 0) THEN Panic(FALSE)                      \* packet[0]
    ELSE LET hi == U8(1 + L) IN
    IF ~SliceOK(pkt, 1, hi) THEN Panic(FALSE)                  \* packet[1 : 1+p.DCIDLength]
    ELSE Return([kind               |-> "ShortHeader",
                 HeaderForm         |-> 0,
                 ReservedBits       |-> LowBits(Shr(ByteAt(pkt, 0), 3), 2),
                 KeyPhase           |-> LowBits(Shr(ByteAt(pkt, 0), 2), 1),
                 PacketNumberLength |-> LowBits(ByteAt(pkt, 0), 2),
                 DCID               |-> SliceBytes(pkt, 1, hi),
                 PacketNumber       |-> 0],
                hi > PLen(pkt))

\* the form bit as ParsePacket computes it: firstByte >> 7
headerFormOf(firstByte) == Shr(firstByte, 7)

ParsePacket(L, pkt) ==
    IF ~IndexOK(pkt, 0) THEN Panic(FALSE)                      \* firstByte := packet[0]
    ELSE IF headerFormOf(ByteAt(pkt, 0)) = 1 THEN parseLongHeader(pkt)
    ELSE parseShortHeader(L, pkt)

(***************************************************************************)
(* Datagrams as a sender writes them (the wire format of the tests).       *)
(***************************************************************************)
\* first DCID byte and first SCID byte of the test vectors; the following
\* bytes count upwards from them
DSeed == 1
SSeed == 10

\* a 32-bit value as four bytes, most significant first
BE32(v) == << (v \div 16777216) % 256, (v \div 65536) % 256, (v \div 256) % 256, v % 256 >>

CIDBytes(seed, n) == [i \in 1..n |-> (seed + i - 1) % 256]

\* the packet payload that follows the header: n bytes 0xEE
Payload(n) == [i \in 1..n |-> 238]

LongWire(b0, ver, d, s, pay) ==
    <<b0>> \o BE32(ver) \o <<d>> \o CIDBytes(DSeed, d) \o <<s>> \o CIDBytes(SSeed, s) \o Payload(pay)

ShortWire(b0, n) == <<b0>> \o CIDBytes(DSeed, n - 1)

\* a byte-slice literal: cap = len
Literal(bytes) == [data |-> bytes, cap |-> Len(bytes)]

\* buffer[:n] of ReadPacket: the n bytes received, in a buffer of 1500 zeroed bytes
ReadPacket(bytes) == [data |-> bytes, cap |-> ReadBufferSize]

\* what the sender wrote, kept beside the datagram
LongMeta(b0, ver, d, s, n) ==
    [form |-> "long", b0 |-> b0, ver |-> ver, d |-> d, dcid |-> CIDBytes(DSeed, d),
     s |-> s, scid |-> CIDBytes(SSeed, s), complete |-> n >= 7 + d + s]

ShortMeta(b0, n) == [form |-> "short", b0 |-> b0, body |-> CIDBytes(DSeed, n - 1)]

NoMeta == [form |-> "none"]

\* a long-form datagram cut to its first n bytes
LongInput(b0, ver, d, s, pay, n, buffered) ==
    LET wire  == LongWire(b0, ver, d, s, pay)
        bytes == SubSeq(wire, 1, Min(n, Len(wire)))
    IN [pkt  |-> IF buffered THEN ReadPacket(bytes) ELSE Literal(bytes),
        meta |-> LongMeta(b0, ver, d, s, Len(bytes))]

ShortInput(b0, n, buffered) ==
    LET bytes == ShortWire(b0, n)
    IN [pkt  |-> IF buffered THEN ReadPacket(bytes) ELSE Literal(bytes),
        meta |-> ShortMeta(b0, n)]

\* the declared CID lengths tried: the small ones and the ones near 255
CIDLens == (0..MaxLen) \cup ((256 - HighSpan)..255)

\* versions tried (the top byte stays below 0x80 so that the 32-bit value
\* stays inside the model checker's integers)
Versions == {0, 1, 16909060, 1798521807, 2147483647}

\* every long-form first byte, on a small complete datagram
LongFirstBytes == {LongInput(b0, 1, 2, 1, 2, 14, FALSE) : b0 \in 128..255}

\* every pair of declared lengths, on a complete datagram
LongLengths == {LongInput(192, 1, d, s, 0, 7 + d + s, FALSE) : d \in CIDLens, s \in CIDLens}

\* the test's Initial packet (DCID 8 bytes, SCID 4 bytes) under every version
LongVersions ==
    {LongInput(192, v, 8, 4, pay, 19 + pay, b) : v \in Versions, pay \in {0, 1}, b \in BOOLEAN}

TruncatedShapes == {<<0, 0>>, <<8, 4>>, <<3, 0>>, <<250, 0>>, <<0, 249>>}

\* datagrams cut short of their declared lengths (cut 0 is the empty datagram)
LongTruncated ==
    {LongInput(192, 1, ds[1], ds[2], 0, n, b) :
        ds \in TruncatedShapes, n \in 0..MaxCut, b \in BOOLEAN}

\* every short-form first byte, on the test's 9-byte datagram
ShortFirstBytes == {ShortInput(b0, 9, FALSE) : b0 \in 0..127}

\* short-form datagrams of every small length and around 256 bytes
ShortLengths ==
    {ShortInput(64, n, b) : n \in (1..MaxShortLen) \cup {255, 256, 257}, b \in BOOLEAN}

Inputs ==
    LongFirstBytes \cup LongLengths \cup LongVersions \cup LongTruncated
        \cup ShortFirstBytes \cup ShortLengths

\* the values of PacketProcessor.DCIDLength tried (the tests construct it with 8)
DCIDLengths == {0, 1, 8, 9, MaxValidCID, 254, 255}

(***************************************************************************)
(* The state machine: a processor is constructed, a datagram is at hand,   *)
(* and each entry point of the parser is called on it, in any order.       *)
(***************************************************************************)
NoPin == [call |-> "none", packet |-> Literal(<<>>), L |-> 0, result |-> NoResult, later |-> 0]

\* a processor constructed with some DCIDLength is about to parse a datagram
\* of the family
Start(family) ==
    /\ \E in \in family : packet = in.pkt /\ meta = in.meta
    /\ DCIDLength \in DCIDLengths
    /\ call = "none"
    /\ result = NoResult
    /\ pinned = NoPin
    /\ Fresh(AllIdle)

Init == Start(Inputs)

CallParsePacket ==
    /\ call' = "ParsePacket"
    /\ result' = ParsePacket(DCIDLength, packet)
    /\ UNCHANGED <<packet, DCIDLength, meta, pinned>>
    /\ UNCHANGED lbVars

\* parseLongHeader that also stores the parsed DCID length in the processor
CallParseLongHeaderCaching ==
    /\ call' = "parseLongHeader"
    /\ result' = parseLongHeader(packet)
    /\ DCIDLength' = IF result'.status = "returned" THEN result'.header.DCIDLength
                     ELSE DCIDLength
    /\ UNCHANGED <<packet, meta, pinned>>
    /\ UNCHANGED lbVars

CallParseLongHeader ==
    /\ call' = "parseLongHeader"
    /\ result' = parseLongHeader(packet)
    /\ UNCHANGED <<packet, DCIDLength, meta, pinned>>
    /\ UNCHANGED lbVars

CallParseShortHeader ==
    /\ call' = "parseShortHeader"
    /\ result' = parseShortHeader(DCIDLength, packet)
    /\ UNCHANGED <<packet, DCIDLength, meta, pinned>>
    /\ UNCHANGED lbVars

Next == CallParsePacket \/ CallParseLongHeader \/ CallParseShortHeader

Spec == Init /\ [][Next]_vars

(***************************************************************************)
(* The same processor parsing one datagram after another, with an observer *)
(* that pins one call and compares every later call with it.               *)
(***************************************************************************)
\* the empty datagram, a cut and the whole of the test's Initial packet,
\* and the test's short-form packet, as literals and as ReadPacket hands them
PureInputs ==
    {LongInput(192, 1, 8, 4, 0, n, b) : n \in {0, 10, 19}, b \in BOOLEAN}
        \cup {ShortInput(64, 9, b) : b \in BOOLEAN}

\* the next datagram is handed to the caller of the parser (an observer
\* that has pinned a call counts the parsed datagrams that are replaced)
Receive(family) ==
    \E in \in family :
        /\ packet' = in.pkt
        /\ meta' = in.meta
        /\ call' = "none"
        /\ result' = NoResult
        /\ pinned' = IF pinned.call = "none" \/ call = "none" THEN pinned
                     ELSE [pinned EXCEPT !.later = Min(@ + 1, MaxLater)]
        /\ UNCHANGED DCIDLength
        /\ UNCHANGED lbVars

InitPure == Start(PureInputs)

ReceivePure == Receive(PureInputs)

\* the observer keeps the call that has just run
Pin ==
    /\ pinned.call = "none"
    /\ call # "none"
    /\ pinned' = [call |-> call, packet |-> packet, L |-> DCIDLength,
                  result |-> result, later |-> 0]
    /\ UNCHANGED <<packet, DCIDLength, call, result, meta>>
    /\ UNCHANGED lbVars

NextPure ==
    ReceivePure \/ CallParsePacket \/ CallParseLongHeader \/ CallParseShortHeader \/ Pin

SpecPure == InitPure /\ [][NextPure]_vars

(***************************************************************************)
(* Vocabulary of the claims, stated on the datagram's bytes and on what    *)
(* the sender wrote, not through the parser's own operators.               *)
(***************************************************************************)
\* bit k of a byte
Bit(b, k) == (b \div (2 ^ k)) % 2

Ran == result.status # "none"

Returned == result.status = "returned"

\* the call ended by returning a Truncated error and no header
FailedTruncated ==
    result.status = "returned" /\ result.err = "Truncated" /\ result.header = NilHeader

\* the call returned a header of the given kind and a nil error
ReturnedHeader(kind) ==
    result.status = "returned" /\ result.err = "nil" /\ result.header.kind = kind

LongCall == call \in {"ParsePacket", "parseLongHeader"}

ShortCall == call \in {"ParsePacket", "parseShortHeader"}

\* the datagram has a first byte and its bit 7 is set / clear
IsLongForm == PLen(packet) >= 1 /\ Bit(packet.data[1], 7) = 1

IsShortForm == PLen(packet) >= 1 /\ Bit(packet.data[1], 7) = 0

\* a long-form datagram that ends before byte 5, or whose declared DCID or
\* SCID length exceeds the bytes that remain
LongTooShort ==
    \/ PLen(packet) < 6
    \/ packet.data[6] > PLen(packet) - 6
    \/ /\ PLen(packet) >= 7 + packet.data[6]
       /\ packet.data[7 + packet.data[6]] > PLen(packet) - 7 - packet.data[6]

\* the sender wrote a long-form datagram and all of its header arrived
CompleteLong == meta.form = "long" /\ meta.complete

\* C1: every call of the parser ends by returning (a header or an error);
\* it never panics and never reaches past the last byte of the datagram.
C1_NoPanicNoOutOfBounds == Ran => (Returned /\ ~result.oob)

\* C2: a long-form datagram with fewer than 6 bytes, or whose declared DCID
\* or SCID length exceeds the bytes remaining, fails with Truncated and
\* returns no header.
C2_TruncatedLongFails == (LongCall /\ Ran /\ IsLongForm /\ LongTooShort) => FailedTruncated

\* C3: a short-form datagram parsed with supplied length L fails with
\* Truncated iff its length is below 1 + L, and otherwise returns a header
\* whose DCID is datagram bytes 1..L.
C3_ShortTruncatedIff ==
    (ShortCall /\ Ran /\ IsShortForm) =>
        IF PLen(packet) < 1 + DCIDLength
        THEN FailedTruncated
        ELSE /\ ReturnedHeader("ShortHeader")
             /\ result.header.DCID = SubSeq(packet.data, 2, 1 + DCIDLength)

C5_TypeIsBits4And5 ==
    (LongCall /\ ReturnedHeader("LongHeader")) =>
        result.header.LongPacketType = 2 * Bit(packet.data[1], 5) + Bit(packet.data[1], 4)

\* C6: a long-form datagram declaring lengths d and s in 0..255 and holding
\* at least 7 + d + s bytes parses to the version, DCID and SCID written.
C6_LongFieldsByOffset ==
    (LongCall /\ Ran /\ CompleteLong) =>
        /\ ReturnedHeader("LongHeader")
        /\ result.header.Version = meta.ver
        /\ result.header.DCIDLength = meta.d
        /\ result.header.DCID = meta.dcid
        /\ result.header.SCIDLength = meta.s
        /\ result.header.SCID = meta.scid

\* the datagram holds all the bytes its header form needs
CompleteForItsForm ==
    \/ CompleteLong
    \/ meta.form = "short" /\ PLen(packet) >= 1 + DCIDLength

\* C7: on a non-empty datagram ParsePacket returns a LongHeader with
\* HeaderForm 1 exactly when bit 7 of byte 0 is set, and a ShortHeader with
\* HeaderForm 0 exactly when it is clear (stated here for the datagrams that
\* hold all the bytes of their header).
C7_FormFromBit7 ==
    (call = "ParsePacket" /\ Ran /\ PLen(packet) >= 1 /\ CompleteForItsForm) =>
        /\ (ReturnedHeader("LongHeader") /\ result.header.HeaderForm = 1)
               <=> Bit(packet.data[1], 7) = 1
        /\ (ReturnedHeader("ShortHeader") /\ result.header.HeaderForm = 0)
               <=> Bit(packet.data[1], 7) = 0

\* C8: a parsed ShortHeader has ReservedBits = bits 3-4, KeyPhase = bit 2
\* and PacketNumberLength = bits 0-1 of byte 0, and its DCID starts at
\* byte 1; bits 6 and 7 have no influence.
C8_ShortFirstByteFields ==
    (ShortCall /\ ReturnedHeader("ShortHeader")) =>
        /\ result.header.ReservedBits = 2 * Bit(packet.data[1], 4) + Bit(packet.data[1], 3)
        /\ result.header.KeyPhase = Bit(packet.data[1], 2)
        /\ result.header.PacketNumberLength = 2 * Bit(packet.data[1], 1) + Bit(packet.data[1], 0)
        /\ \A k \in 1..Min(Len(result.header.DCID), PLen(packet) - 1) :
               result.header.DCID[k] = packet.data[k + 1]

\* C8 witness: parseShortHeader ran on a first byte with every bit set
\* (form bit and fixed bit included) and returned a non-empty DCID
C8_Witness ==
    /\ call = "parseShortHeader" /\ PLen(packet) >= 1 /\ packet.data[1] = 255
    /\ ReturnedHeader("ShortHeader")
    /\ result.header.ReservedBits = 3
    /\ Len(result.header.DCID) = 8

\* C9: every long-form datagram declaring DCID length 0 (and holding all
\* of its header) parses to a header whose GetCID is the empty CID, no error.
C9_ZeroLengthDCIDParses ==
    (LongCall /\ Ran /\ CompleteLong /\ meta.d = 0) =>
        /\ ReturnedHeader("LongHeader")
        /\ GetCID(result.header) = [cid |-> <<>>, err |-> "nil"]

\* C9, the scenario alone: 0xC0, version 1, DCID length 0, SCID length 0
\* parses to an Initial packet with empty DCID and SCID
C9_SevenByteScenario ==
    (LongCall /\ Ran /\ packet.data = <<192, 0, 0, 0, 1, 0, 0>>) =>
        /\ ReturnedHeader("LongHeader")
        /\ result.header.LongPacketType = Initial
        /\ result.header.DCID = <<>> /\ result.header.SCID = <<>>

\* the current call has the inputs of the pinned call
SameAsPinned ==
    pinned.call # "none" /\ call = pinned.call /\ packet = pinned.packet /\ DCIDLength = pinned.L

Alive == \A q \in Procs : pc[q] \notin {"panic", "exited"}

\* Start calls that have not yet reached net.ListenPacket
StartsPending == {q \in Procs : pc[q] \in {"start_lock", "start_check", "start_listen"}}

\* a goroutine calls a method of the load balancer
Call(p, entry) ==
    /\ Alive
    /\ UNCHANGED <<parserVars, sigChan>>
    /\ pc[p] = "idle"
    /\ ncalls < MaxCalls
    /\ entry = "start_lock" => Len(socks) + Cardinality(StartsPending) < MaxListens
    /\ pc' = [pc EXCEPT ![p] = entry]
    /\ loc' = [loc EXCEPT ![p] = NoLocals]
    /\ ncalls' = ncalls + 1
    /\ UNCHANGED <<lb, socks, ret, last>>

\* what a finished call leaves in ret
Finished(p, op, err, l, b) ==
    [op |-> op, err |-> err, before |-> l.before, after |-> Lifecycle(b),
     listens |-> l.listens, closes |-> l.closes, raced |-> l.raced,
     prev |-> last.op, prevErr |-> last.err]

\* Start or Shutdown returns err: the deferred Unlock runs; b is the load
\* balancer and l the goroutine's locals at the return statement
ReturnUnlock(p, op, err, l, b) ==
    /\ lb' = [b EXCEPT !.mu = "free"]
    /\ ret' = [ret EXCEPT ![p] = Finished(p, op, err, l, b)]
    /\ last' = [op |-> op, err |-> err]
    /\ pc' = [pc EXCEPT ![p] = "idle"]
    /\ loc' = [loc EXCEPT ![p] = l]

\* lb.mu.Lock() of Start and of Shutdown
Lock(p, at, next) ==
    /\ Alive
    /\ UNCHANGED <<parserVars, sigChan>>
    /\ pc[p] = at
    /\ lb.mu = "free"
    /\ lb' = [lb EXCEPT !.mu = p]
    /\ loc' = [loc EXCEPT ![p].before = Lifecycle(lb)]
    /\ pc' = [pc EXCEPT ![p] = next]
    /\ UNCHANGED <<socks, ret, last, ncalls>>

CallStart(p) == Call(p, "start_lock")

StartLock(p) == Lock(p, "start_lock", "start_check")

\* Start without the test of lb.running
StartCheckIgnoresRunning(p) ==
    /\ Alive
    /\ UNCHANGED <<parserVars, sigChan>>
    /\ pc[p] = "start_check"
    /\ pc' = [pc EXCEPT ![p] = "start_listen"]
    /\ UNCHANGED <<lb, loc, ret, last, socks, ncalls>>

\* if lb.running { return nil }
StartCheck(p) ==
    /\ Alive
    /\ UNCHANGED <<parserVars, sigChan>>
    /\ pc[p] = "start_check"
    /\ IF lb.running
       THEN ReturnUnlock(p, "Start", "nil", loc[p], lb)
       ELSE /\ pc' = [pc EXCEPT ![p] = "start_listen"]
            /\ UNCHANGED <<lb, loc, ret, last>>
    /\ UNCHANGED <<socks, ncalls>>

\* listener, err := net.ListenPacket("udp", lb.listenAddr); if err != nil { return err }
StartListen(p) ==
    /\ Alive
    /\ UNCHANGED <<parserVars, sigChan>>
    /\ pc[p] = "start_listen"
    /\ \E ok \in BOOLEAN :
         LET l == [loc[p] EXCEPT !.listens = @ + 1] IN
         IF ok
         THEN /\ socks' = Append(socks, "open")
              /\ loc' = [loc EXCEPT ![p] = [l EXCEPT !.listener = Len(socks) + 1]]
              /\ pc' = [pc EXCEPT ![p] = "start_assign"]
              /\ UNCHANGED <<lb, ret, last>>
         ELSE /\ ReturnUnlock(p, "Start", "ListenErr", l, lb)
              /\ UNCHANGED socks
    /\ UNCHANGED ncalls

\* lb.listener = listener
StartAssign(p) ==
    /\ Alive
    /\ UNCHANGED <<parserVars, sigChan>>
    /\ pc[p] = "start_assign"
    /\ lb' = [lb EXCEPT !.listener = loc[p].listener]
    /\ pc' = [pc EXCEPT ![p] = "start_running"]
    /\ UNCHANGED <<socks, loc, ret, last, ncalls>>

\* lb.running = true; return nil
StartSetRunning(p) ==
    /\ Alive
    /\ UNCHANGED <<parserVars, sigChan>>
    /\ pc[p] = "start_running"
    /\ ReturnUnlock(p, "Start", "nil", loc[p], [lb EXCEPT !.running = TRUE])
    /\ UNCHANGED <<socks, ncalls>>

CallShutdown(p) == Call(p, "sd_lock")

ShutdownLock(p) == Lock(p, "sd_lock", "sd_check")

\* if !lb.running { return nil }
ShutdownCheck(p) ==
    /\ Alive
    /\ UNCHANGED <<parserVars, sigChan>>
    /\ pc[p] = "sd_check"
    /\ IF ~lb.running
       THEN ReturnUnlock(p, "Shutdown", "nil", loc[p], lb)
       ELSE /\ pc' = [pc EXCEPT ![p] = "sd_close"]
            /\ UNCHANGED <<lb, loc, ret, last>>
    /\ UNCHANGED <<socks, ncalls>>

\* a method call on the nil interface value: the program panics
NilDereference(p, op) ==
    /\ pc' = [pc EXCEPT ![p] = "panic"]
    /\ ret' = [ret EXCEPT ![p] = Finished(p, op, "panic: nil pointer dereference", loc[p], lb)]
    /\ UNCHANGED <<lb, socks, loc, last>>

\* Close on a listener that is already closed fails
ShutdownCloseErrorClearsRunning(p) ==
    /\ Alive
    /\ UNCHANGED <<parserVars, sigChan>>
    /\ pc[p] = "sd_close"
    /\ lb.listener # NilListener
    /\ \E ok \in BOOLEAN :
         LET l == [loc[p] EXCEPT !.closes = @ + 1] IN
         IF ok /\ socks[lb.listener] = "open"
         THEN /\ socks' = [socks EXCEPT ![lb.listener] = "closed"]
              /\ loc' = [loc EXCEPT ![p] = l]
              /\ pc' = [pc EXCEPT ![p] = "sd_clear"]
              /\ UNCHANGED <<lb, ret, last>>
         ELSE /\ ReturnUnlock(p, "Shutdown", "CloseErr", l, [lb EXCEPT !.running = FALSE])
              /\ UNCHANGED socks
    /\ UNCHANGED ncalls

\* if err := lb.listener.Close(); err != nil { return err }
\* (Close succeeds only on a listener that is open.  A Close that fails
\* returns its error; whether the descriptor was released all the same is
\* the connection's business and not decided by this program, so both
\* outcomes are possible)
ShutdownClose(p) ==
    /\ Alive
    /\ UNCHANGED <<parserVars, sigChan>>
    /\ pc[p] = "sd_close"
    /\ IF lb.listener = NilListener
       THEN NilDereference(p, "Shutdown")
       ELSE \E ok \in BOOLEAN, released \in BOOLEAN :
              LET l == [loc[p] EXCEPT !.closes = @ + 1] IN
              IF ok /\ socks[lb.listener] = "open"
              THEN /\ released
                   /\ socks' = [socks EXCEPT ![lb.listener] = "closed"]
                   /\ loc' = [loc EXCEPT ![p] = l]
                   /\ pc' = [pc EXCEPT ![p] = "sd_clear"]
                   /\ UNCHANGED <<lb, ret, last>>
              ELSE /\ ReturnUnlock(p, "Shutdown", "CloseErr", l, lb)
                   /\ socks' = IF released
                               THEN [socks EXCEPT ![lb.listener] = "closed"]
                               ELSE socks
    /\ UNCHANGED ncalls

\* lb.running = false; return nil
ShutdownClear(p) ==
    /\ Alive
    /\ UNCHANGED <<parserVars, sigChan>>
    /\ pc[p] = "sd_clear"
    /\ ReturnUnlock(p, "Shutdown", "nil", loc[p], [lb EXCEPT !.running = FALSE])
    /\ UNCHANGED <<socks, ncalls>>

CallReadPacket(p) == Call(p, "rp_read")

\* another goroutine is about to write lb.listener while this one reads it
\* without the mutex
RacingWriters(p) == {q \in Procs \ {p} : pc[q] = "start_assign"}

\* the values a read of lb.listener can yield: the field's value, or, when
\* the read races with Start's write, also the value being written
ReadListener(p) == {lb.listener} \cup {loc[q].listener : q \in RacingWriters(p)}

\* buffer := make([]byte, 1500); the operand lb.listener of ReadFrom is read
ReadPacketLoad(p) ==
    /\ Alive
    /\ UNCHANGED <<parserVars, sigChan>>
    /\ pc[p] = "rp_read"
    /\ \E v \in ReadListener(p) :
         loc' = [loc EXCEPT ![p].listener = v, ![p].raced = RacingWriters(p) # {}]
    /\ pc' = [pc EXCEPT ![p] = "rp_readfrom"]
    /\ UNCHANGED <<lb, socks, ret, last, ncalls>>

\* n, addr, err := lb.listener.ReadFrom(buffer); if err != nil { return nil, nil, err }
\* return buffer[:n], addr, nil
ReadPacketReadFrom(p) ==
    /\ Alive
    /\ UNCHANGED <<parserVars, sigChan>>
    /\ pc[p] = "rp_readfrom"
    /\ IF loc[p].listener = NilListener
       THEN NilDereference(p, "ReadPacket")
       ELSE /\ \E ok \in BOOLEAN :
                 ret' = [ret EXCEPT ![p] =
                     Finished(p, "ReadPacket",
                              IF ok /\ socks[loc[p].listener] = "open" THEN "nil" ELSE "ReadErr",
                              loc[p], lb)]
            /\ pc' = [pc EXCEPT ![p] = "idle"]
            /\ UNCHANGED <<lb, socks, loc, last>>
    /\ UNCHANGED ncalls

CallExtractCID(p) == Call(p, "ex_deref")

\* return lb.packetProcessor.HeaderParser.ExtractCID(packet)
ExtractCID(p) ==
    /\ Alive
    /\ UNCHANGED <<parserVars, sigChan>>
    /\ pc[p] = "ex_deref"
    /\ IF lb.packetProcessor = "nil"
       THEN NilDereference(p, "ExtractCID")
       ELSE /\ ret' = [ret EXCEPT ![p] = Finished(p, "ExtractCID", "nil", loc[p], lb)]
            /\ pc' = [pc EXCEPT ![p] = "idle"]
            /\ UNCHANGED <<lb, socks, loc, last>>
    /\ UNCHANGED ncalls

\* one statement of Start or Shutdown in goroutine p
LifecycleStep(p) ==
    \/ StartLock(p) \/ StartCheck(p) \/ StartListen(p) \/ StartAssign(p) \/ StartSetRunning(p)
    \/ ShutdownLock(p) \/ ShutdownCheck(p) \/ ShutdownClose(p) \/ ShutdownClear(p)

\* one statement of Start, Shutdown, ReadPacket or ExtractCID in goroutine p
Step(p) ==
    \/ LifecycleStep(p)
    \/ ReadPacketLoad(p) \/ ReadPacketReadFrom(p)
    \/ ExtractCID(p)

\* the parser is not involved
ParserIdle ==
    /\ packet = Literal(<<>>)
    /\ DCIDLength = 8
    /\ call = "none"
    /\ result = NoResult
    /\ meta = NoMeta
    /\ pinned = NoPin

(***************************************************************************)
(* Any goroutine calls any method at any time.                             *)
(***************************************************************************)
InitLB == ParserIdle /\ Fresh(AllIdle)

NextLB ==
    \E p \in Procs :
        \/ CallStart(p) \/ CallShutdown(p) \/ CallReadPacket(p) \/ CallExtractCID(p)
        \/ Step(p)

SpecLB == InitLB /\ [][NextLB]_vars

(***************************************************************************)
(* The program's main flow: main starts a goroutine that calls Start and   *)
(* exits the program if Start fails; main itself waits for the termination *)
(* signal, calls Shutdown and returns.                                     *)
(***************************************************************************)
Main == "g1"
Starter == "g2"

\* the process ends: the operating system closes its sockets
Exit ==
    /\ pc' = [p \in Procs |-> "exited"]
    /\ socks' = [i \in DOMAIN socks |-> "closed"]
    /\ UNCHANGED <<lb, loc, ret, last, ncalls, sigChan>>
    /\ UNCHANGED parserVars

\* main after sigChan := make(chan os.Signal, 1); signal.Notify(sigChan, ...)
InitMain == ParserIdle /\ Fresh([p \in Procs |-> IF p = Main THEN "main_go" ELSE "unborn"])

\* SIGINT or SIGTERM is delivered: signal.Notify puts it into sigChan if
\* there is room
SignalArrives ==
    /\ Alive
    /\ sigChan = 0
    /\ sigChan' = 1
    /\ UNCHANGED <<lb, socks, pc, loc, ret, last, ncalls>>
    /\ UNCHANGED parserVars

\* go func() { if err := lb.Start(); ... }()
MainGo ==
    /\ Alive
    /\ pc[Main] = "main_go"
    /\ pc' = [pc EXCEPT ![Main] = "main_log", ![Starter] = "start_lock"]
    /\ ncalls' = ncalls + 1
    /\ UNCHANGED <<lb, socks, loc, ret, last, sigChan>>
    /\ UNCHANGED parserVars

\* log.Printf("QUIC Load Balancer started on %s", listenAddr)
MainLog ==
    /\ Alive
    /\ pc[Main] = "main_log"
    /\ pc' = [pc EXCEPT ![Main] = "main_wait"]
    /\ UNCHANGED <<lb, socks, loc, ret, last, ncalls, sigChan>>
    /\ UNCHANGED parserVars

\* <-sigChan; log.Println("Shutting down..."); lb.Shutdown()
MainSignal ==
    /\ Alive
    /\ pc[Main] = "main_wait"
    /\ sigChan = 1
    /\ sigChan' = 0
    /\ pc' = [pc EXCEPT ![Main] = "sd_lock"]
    /\ ncalls' = ncalls + 1
    /\ UNCHANGED <<lb, socks, loc, ret, last>>
    /\ UNCHANGED parserVars

\* if err := lb.Start(); err != nil { log.Fatalf(...) }
StarterFatal ==
    /\ Alive
    /\ pc[Starter] = "idle"
    /\ ret[Starter].err # "nil"
    /\ Exit

\* the goroutine's function returns after a Start that returned nil
StarterDone ==
    /\ Alive
    /\ pc[Starter] = "idle"
    /\ ret[Starter].err = "nil"
    /\ pc' = [pc EXCEPT ![Starter] = "done"]
    /\ UNCHANGED <<lb, socks, loc, ret, last, ncalls, sigChan>>
    /\ UNCHANGED parserVars

\* if err := lb.Shutdown(); err != nil { log.Printf(...) }; main returns
MainReturn ==
    /\ Alive
    /\ pc[Main] = "idle"
    /\ Exit

NextMain ==
    \/ SignalArrives
    \/ MainGo \/ MainLog \/ MainSignal \/ StarterFatal \/ StarterDone \/ MainReturn
    \/ \E p \in Procs : LifecycleStep(p)

SpecMain == InitMain /\ [][NextMain]_vars

(***************************************************************************)
(* The load balancer's claims.                                             *)
(***************************************************************************)
NilPanic == "panic: nil pointer dereference"

\* goroutine p's last finished call was op
Did(p, op) == ret[p].op = op

\* no Start or Shutdown call is under way
Quiescent == lb.mu = "free"

\* the load balancer holds a listener opened by Start and not closed
HoldsOpenListener == lb.listener # NilListener /\ socks[lb.listener] = "open"

\* some UDP listener of the program is open
SomeListenerOpen == \E i \in DOMAIN socks : socks[i] = "open"

\* C11: on a LoadBalancer returned by InitLoadBalancer, ExtractCID returns
\* the parser's CID or an error; it never fails because the packet
\* processor is unset.
C11_ExtractCIDHasProcessor ==
    \A p \in Procs : Did(p, "ExtractCID") => ret[p].err # NilPanic

\* C16: in the main flow, under every interleaving of the Start goroutine
\* and main's Shutdown, once Shutdown has returned without error the load
\* balancer is not running and holds no open UDP listener.
C16_ShutdownLeavesNothingOpen ==
    (pc[Main] = "idle" /\ Did(Main, "Shutdown") /\ ret[Main].err = "nil")
        => (~lb.running /\ ~SomeListenerOpen)

\* C17: after any sequence of Start and Shutdown calls, with listen and
\* close succeeding or failing, running is true if and only if the load
\* balancer holds a listener opened by Start that has not been closed; so
\* running implies a non-nil listener.
C17_RunningIffOpenListener ==
    Quiescent => (lb.running <=> HoldsOpenListener)

\* C18: in every interleaving of Start, Shutdown and ReadPacket, ReadPacket
\* is never executed against a nil listener and its read of the listener
\* field never races with Start's write of it.
C18_ReadPacketOnInstalledListener ==
    \A p \in Procs :
        /\ Did(p, "ReadPacket") => (ret[p].err # NilPanic /\ ~ret[p].raced)
        /\ pc[p] = "rp_readfrom" => (loc[p].listener # NilListener /\ ~loc[p].raced)

\* C19: a failing Start returns the listen error with running still false
\* and the listener field not replaced; a Shutdown whose Close fails returns
\* the close error with running still true; both leave the lifecycle state
\* as they found it.
C19_FailureLeavesLifecycle ==
    \A p \in Procs :
        /\ (Did(p, "Start") /\ ret[p].err # "nil") =>
               /\ ret[p].err = "ListenErr"
               /\ ~ret[p].after.running
               /\ ret[p].after = ret[p].before
        /\ (Did(p, "Shutdown") /\ ret[p].err # "nil") =>
               /\ ret[p].err = "CloseErr"
               /\ ret[p].after.running
               /\ ret[p].after = ret[p].before

\* a Start fails after an earlier Start had installed a listener, and a
\* Shutdown fails in Close
C19_Witness ==
    \E p, q \in Procs :
        /\ Did(p, "Start") /\ ret[p].err = "ListenErr"
        /\ ret[p].listens = 1
        /\ Did(q, "Shutdown") /\ ret[q].err = "CloseErr"
        /\ ret[q].closes = 1
        /\ ret[q].before.listener # NilListener

\* C20: Start on a running load balancer returns nil without opening or
\* replacing a listener; Shutdown on one that is not running returns nil
\* without calling Close; so a Start right after a Start that returned nil,
\* and a Shutdown right after a Shutdown that returned nil, change nothing.
C20_Idempotent ==
    \A p \in Procs :
        /\ (Did(p, "Start") /\ ret[p].before.running) =>
               /\ ret[p].err = "nil"
               /\ ret[p].listens = 0
               /\ ret[p].after = ret[p].before
        /\ (Did(p, "Shutdown") /\ ~ret[p].before.running) =>
               /\ ret[p].err = "nil"
               /\ ret[p].closes = 0
               /\ ret[p].after = ret[p].before
        /\ (Did(p, "Start") /\ ret[p].prev = "Start" /\ ret[p].prevErr = "nil") =>
               /\ ret[p].listens = 0
               /\ ret[p].after = ret[p].before
        /\ (Did(p, "Shutdown") /\ ret[p].prev = "Shutdown" /\ ret[p].prevErr = "nil") =>
               /\ ret[p].closes = 0
               /\ ret[p].after = ret[p].before

\* a second Start has found the load balancer running, and a second
\* Shutdown has found it already shut down
C20_Witness ==
    \E p, q \in Procs :
        /\ Did(p, "Start") /\ ret[p].prev = "Start" /\ ret[p].prevErr = "nil"
        /\ ret[p].before.running
        /\ Did(q, "Shutdown") /\ ret[q].prev = "Shutdown" /\ ret[q].prevErr = "nil"
        /\ ~ret[q].before.running
        /\ ret[q].before.listener # NilListener

====
